---------------------------- MODULE Spec2Model ----------------------------
(***************************************************************************)
(* Model of the chat relay of src/src/server/index.ts (the Durable Object  *)
(* variant, lines 1-1041): rooms (class Chat), the session registry kept   *)
(* by the instance named "webhook-router", the GigaML gateway calls and    *)
(* the webhook path  worker -> router -> room.                             *)
(*                                                                         *)
(* Every instance of class Chat has its own in-memory fields (messages,    *)
(* connections, gigamlSessions) and its own SQL storage (tables messages,  *)
(* gigaml_sessions, session_registry).  The handlers of one instance run   *)
(* one at a time and interleave only at their awaits, so every action      *)
(* below is one synchronous stretch of a handler, from an event to the     *)
(* next await.                                                             *)
(*                                                                         *)
(* Platform assumptions: storage.sql.exec fails only on a malformed        *)
(* statement; a call from one instance to another succeeds; a full scan    *)
(* of a table returns its rows in rowid (insertion) order; a double-quoted *)
(* SQL token that names no column is a string literal.                     *)
(***************************************************************************)
EXTENDS Integers, Sequences, FiniteSets, TLC

\* ------------------------------------------------------------- bounds --
MaxSockets    == 2   \* WebSocket upgrades over the whole run
MaxClientMsgs == 1   \* frames received from clients
MaxStoreMsgs  == 2   \* frames received from clients in the runs about the store
MaxWebhooks   == 1   \* POST /webhook/gigaml requests
MaxClock      == 1   \* Date.now() takes the values 0..MaxClock
MaxEvictions  == 1   \* times an instance is dropped from memory and rebuilt
MaxReplies    == 2   \* webhook requests in the runs about the replies of the gateway
MaxOrderMsgs  == 3   \* frames received from clients in the runs about their order

\* ------------------------------------------------------------ domains --
RouterName == "webhook-router"
RoomNames  == {"r1", "r2"}
\* names a client can put in /parties/chat/<room>: any name without "/",
\* the name of the router too
ClientRooms == RoomNames \cup {RouterName}
\* rooms are first used in this order (the rooms are interchangeable)
RoomOrder(r) == IF r = "r1" THEN 1 ELSE 2
\* this.state.id.toString(): the hexadecimal id of the instance, not its name
IdOf(r) == "id-" \o r
\* every name env.Chat.idFromName is called with
Instances == ClientRooms \cup {IdOf(r) : r \in ClientRooms}

Sockets == 1..MaxSockets

\* env.GIGAML_API_KEY, and the Authorization headers of a webhook request:
\* none, or a scheme followed by a token
ApiKey      == "secret"
AuthHeaders ==
  {<<>>,
   <<[scheme |-> "Bearer ", token |-> "secret"]>>,
   <<[scheme |-> "Bearer ", token |-> "wrong"]>>,
   <<[scheme |-> "", token |-> "secret"]>>,
   <<[scheme |-> "Basic ", token |-> "secret"]>>}

PlainContents   == {"hi", "yo"}
\* texts holding a double quote, which JSON.stringify writes as \"
EscapedContents == {"say \"x\""}
Contents == PlainContents \cup EscapedContents
MsgIds   == {"m1", "m2"}
Authors  == {[user |-> "Me", role |-> "user"], [user |-> "Al", role |-> "assistant"],
             [user |-> "Bo", role |-> "assistant"]}

ChatFrames ==
  {[type |-> ty, id |-> i, content |-> c, user |-> a.user, role |-> a.role] :
     ty \in {"add", "update"}, i \in MsgIds, c \in Contents, a \in Authors}
\* a frame of another type, and a frame that is not JSON (it has no type)
OtherFrames == {[type |-> "typing"], [raw |-> "not json"]}

UnavailableText == "AI assistant is currently unavailable. You can still send messages and they will be processed when the service is restored."
ReconnectingText == "Reconnecting to AI assistant. Your message will be processed shortly."
ApologyText == "Sorry, I'm having trouble connecting to the AI assistant. Please try again."
SettingUpText == "Setting up AI assistant connection. Please wait a moment and try again."
DefaultReplyText == "Assistant response received"

\* -------------------------------------------------------------- state --
VARIABLES
  messages,        \* [instance -> Seq(ChatMessage)]   this.messages
  dbMessages,      \* [instance -> Seq(row)]           table messages
  connections,     \* [instance -> [socket -> data]]   this.connections
  gigamlSessions,  \* [instance -> Seq([k, v])]        this.gigamlSessions (a Map, in insertion order)
  dbSessions,      \* [instance -> Seq(row)]           table gigaml_sessions
  registry,        \* Seq(row)  table session_registry of the router instance
  wsState,         \* [socket -> "new" | "open" | "closed"]
  wsRoom,          \* [socket -> instance the socket was accepted by]
  outbox,          \* [socket -> Seq(frame)]  what the server sent on the socket
  tasks,           \* continuations waiting for a timer or for a response
  gwCalls,         \* requests made to the GigaML gateway
  now,             \* last value Date.now() returned
  writes,          \* [instance -> Seq(ChatMessage)]  the calls of saveMessage, in order
  cfg,             \* the run: its input sets, budgets and what it records
  msgCount,        \* client frames handled so far
  hookCount,       \* webhook requests handled so far
  lastHook,        \* the webhook last handled: request, response, room reached
  lastMsg,         \* the client frame last handled: its socket and the frame
  evictions        \* evictions so far

vars == <<messages, dbMessages, connections, gigamlSessions, dbSessions,
          registry, wsState, wsRoom, outbox, tasks, gwCalls, now, writes, cfg,
          msgCount, hookCount, lastHook, lastMsg, evictions>>

\* the fields a handler can change, as one record
World ==
  [messages |-> messages, dbMessages |-> dbMessages, connections |-> connections,
   gigamlSessions |-> gigamlSessions, dbSessions |-> dbSessions,
   registry |-> registry, outbox |-> outbox, tasks |-> tasks, gwCalls |-> gwCalls,
   now |-> now, writes |-> writes, thrown |-> FALSE, status |-> 0, room |-> ""]

Commit(w) ==
  /\ messages' = w.messages
  /\ dbMessages' = w.dbMessages
  /\ connections' = w.connections
  /\ gigamlSessions' = w.gigamlSessions
  /\ dbSessions' = w.dbSessions
  /\ registry' = w.registry
  /\ outbox' = w.outbox
  /\ tasks' = w.tasks
  /\ gwCalls' = w.gwCalls
  /\ now' = w.now
  /\ writes' = w.writes
  /\ cfg' = cfg

\* Date.now(): the clock has moved on by at most one tick since the last read
Clock == {t \in {now, now + 1} : t <= cfg.maxClock}
DateNow(w, t) == [w EXCEPT !.now = t]

\* crypto.randomUUID(): the connection id of an upgrade is named after its
\* socket, the ids made while a client frame is handled after the number of
\* the frame; no two calls return the same value
UuidOfSocket(s) == "c" \o ToString(s)
UuidOfFrame(n) == "u" \o ToString(n)

\* --------------------------------------------------- sequences and Maps --
Range(s) == {s[i] : i \in DOMAIN s}

\* a JavaScript Map as the sequence of its entries in insertion order
MapHas(m, k) == \E i \in DOMAIN m : m[i].k = k
MapSet(m, k, v) ==
  IF MapHas(m, k)
  THEN [i \in DOMAIN m |-> IF m[i].k = k THEN [k |-> k, v |-> v] ELSE m[i]]
  ELSE Append(m, [k |-> k, v |-> v])
MapDelete(m, k) == SelectSeq(m, LAMBDA e : e.k # k)

\* ------------------------------------------------------ message store --
\* JSON.stringify(content): the text between double quotes, with a backslash
\* before every double quote of the text
JSON_stringify(c) == [text |-> c, backslash |-> c \in EscapedContents]

\* The statement saveMessage builds puts JSON.stringify(content) into the SQL
\* text as it is.  SQL reads "..." up to the next double quote and knows no
\* backslash: a text with a double quote leaves a statement that does not parse.
SqlWellFormed(m) == ~JSON_stringify(m.content).backslash
SqlValue(lit) == lit.text

\* this.messages after lines 595-605: replace the entry of that id, or push
CacheUpsert(msgs, m) ==
  IF \E i \in DOMAIN msgs : msgs[i].id = m.id
  THEN [i \in DOMAIN msgs |-> IF msgs[i].id = m.id THEN m ELSE msgs[i]]
  ELSE Append(msgs, m)

\* INSERT INTO messages ... ON CONFLICT (id) DO UPDATE SET content = ...
\* the row of that id keeps its place, its user and its role
SqlUpsertMessage(rows, m) ==
  LET c == SqlValue(JSON_stringify(m.content)) IN
  IF \E i \in DOMAIN rows : rows[i].id = m.id
  THEN [i \in DOMAIN rows |-> IF rows[i].id = m.id THEN [rows[i] EXCEPT !.content = c] ELSE rows[i]]
  ELSE Append(rows, [id |-> m.id, user |-> m.user, role |-> m.role, content |-> c])

\* saveMessage: the cache first, then the table; exec throws on a malformed
\* statement and leaves the table as it was
saveMessage(w, r, m) ==
  [w EXCEPT !.writes[r] = IF cfg.logWrites THEN Append(@, m) ELSE @,
            !.messages[r] = CacheUpsert(@, m),
            !.dbMessages[r] = IF SqlWellFormed(m) THEN SqlUpsertMessage(@, m) ELSE @,
            !.thrown = ~SqlWellFormed(m)]

\* initializeDatabase: SELECT * FROM messages
LoadMessages(rows) == rows

\* ---------------------------------------------------------- broadcast --
\* ws.send throws on a socket that is closed
CanSend(s) == wsState[s] = "open"

\* a loop without the try/catch: the first send that throws ends it, and
\* nothing is deleted from the Map
broadcast_abort(w, r, frame, exclude) ==
  LET targets == (DOMAIN w.connections[r]) \ exclude
      failed  == {s \in targets : ~CanSend(s)}
  IN IF failed # {} THEN [w EXCEPT !.thrown = TRUE]
     ELSE [w EXCEPT
             !.outbox = [s \in Sockets |->
                           IF cfg.logOutbox /\ s \in targets
                           THEN Append(w.outbox[s], frame) ELSE w.outbox[s]]]
\* broadcast(message, exclude): send to every connection of the Map but the
\* excluded ones; a connection whose send throws is deleted from the Map
broadcast(w, r, frame, exclude) ==
  LET targets == (DOMAIN w.connections[r]) \ exclude
      failed  == {s \in targets : ~CanSend(s)}
  IN [w EXCEPT
        !.outbox = [s \in Sockets |->
                      IF cfg.logOutbox /\ s \in targets \ failed
                      THEN Append(w.outbox[s], frame) ELSE w.outbox[s]],
        !.connections[r] = [s \in (DOMAIN w.connections[r]) \ failed |-> w.connections[r][s]]]

\* broadcastMessage({type: "add", ...message})
AddFrame(m) == [type |-> "add", id |-> m.id, content |-> m.content, user |-> m.user, role |-> m.role]

\* a notice of the room: saveMessage, then broadcast to every connection
Notice(prefix, t, text) ==
  [id |-> prefix \o ToString(t), content |-> text, user |-> "system", role |-> "assistant"]
PostNotice(w, r, prefix, t, text) ==
  LET m  == Notice(prefix, t, text)
      w1 == saveMessage(DateNow(w, t), r, m)
  IN IF w1.thrown THEN w1 ELSE broadcast(w1, r, AddFrame(m), {})

\* ----------------------------------------------------- session registry --
\* a plain INSERT in place of INSERT OR REPLACE (the registry kept as a log)
handleSessionRegistration_insert(rows, ticketId, roomId, t) ==
  Append(rows, [ticket_id |-> ticketId, room_id |-> roomId, created_at |-> t])
\* handleSessionRegistration: INSERT OR REPLACE INTO session_registry; the
\* row of that ticket_id, if any, is deleted and the new row is added
handleSessionRegistration(rows, ticketId, roomId, t) ==
  Append(SelectSeq(rows, LAMBDA e : e.ticket_id # ticketId),
         [ticket_id |-> ticketId, room_id |-> roomId, created_at |-> t])

\* SELECT room_id FROM session_registry WHERE ticket_id = ? LIMIT 1
RegistryLookup(rows, ticketId) ==
  LET hits == SelectSeq(rows, LAMBDA e : e.ticket_id = ticketId) IN
  IF hits = <<>> THEN <<>> ELSE <<hits[1].room_id>>

\* ------------------------------------------------------ session setup --
\* the gateway answered the call of this continuation with an error
Failed(task) ==
  [op |-> task.kind \o ":failed", room |-> task.room, ticketId |-> task.ticketId,
   key |-> task.connectionId, content |-> task.content]

Task(kind, ws, r, connectionId, ticketId, session, content) ==
  [kind |-> kind, ws |-> ws, room |-> r, connectionId |-> connectionId,
   ticketId |-> ticketId, session |-> session, content |-> content]

SessionOfRow(row) ==
  [ticketId |-> row.ticket_id, userId |-> row.user_id, status |-> row.status,
   createdAt |-> row.created_at]

\* lines 184-212: the active session of that ticket, first in memory, then
\* in table gigaml_sessions; <<>> when there is none
FindExistingSession(w, r, ticketId) ==
  LET mem == SelectSeq(w.gigamlSessions[r],
                       LAMBDA e : e.v.ticketId = ticketId /\ e.v.status = "active")
      db  == SelectSeq(w.dbSessions[r],
                       LAMBDA row : row.ticket_id = ticketId /\ row.status = "active")
  IN IF mem # <<>> THEN <<mem[1].v>>
     ELSE IF db # <<>> THEN <<SessionOfRow(db[1])>>
     ELSE <<>>

\* setupGigaMLSessionAsync up to its first await (lines 178-227): with a
\* session to reuse it awaits registerSessionInRouter, without one it awaits
\* the initiate-session call
SetupBegin(w, r, ws, connectionId, ticketId) ==
  LET existing == FindExistingSession(w, r, ticketId) IN
  IF existing # <<>>
  THEN [w EXCEPT !.tasks = @ \cup
          {Task("register", ws, r, connectionId, ticketId, existing, "")}]
  ELSE [w EXCEPT
          !.gwCalls = @ \cup {[op |-> "initiate", room |-> r, ticketId |-> ticketId,
                               key |-> connectionId, content |-> ""]},
          !.tasks = @ \cup {Task("initiate", ws, r, connectionId, ticketId, <<>>, "")}]

\* an attach that adds the mapping of this connection id and deletes none
AttachSession_keepStale(w, r, ws, connectionId, session) ==
  LET conns == w.connections[r]
      data == IF ws \in DOMAIN conns
              THEN [conns[ws] EXCEPT !.gigamlSession = <<session>>]
              ELSE [id |-> connectionId, gigamlSession |-> <<session>>]
  IN [w EXCEPT
        !.gigamlSessions[r] = MapSet(@, connectionId, session),
        !.connections[r] = [s \in DOMAIN conns \cup {ws} |-> IF s = ws THEN data ELSE conns[s]]]
\* lines 252-291: move the session to this connection id in the Map and put
\* it into the connection's data, creating the data when it is missing
AttachSession(w, r, ws, connectionId, session) ==
  LET cleaned == SelectSeq(w.gigamlSessions[r],
                   LAMBDA e : ~(e.v.ticketId = session.ticketId /\ e.k # connectionId))
      conns == w.connections[r]
      data == IF ws \in DOMAIN conns
              THEN [conns[ws] EXCEPT !.gigamlSession = <<session>>]
              ELSE [id |-> connectionId, gigamlSession |-> <<session>>]
  IN [w EXCEPT
        !.gigamlSessions[r] = MapSet(cleaned, connectionId, session),
        !.connections[r] = [s \in DOMAIN conns \cup {ws} |-> IF s = ws THEN data ELSE conns[s]]]

\* a catch that logs the error, makes the fallback connection data and
\* tells the room nothing
SetupFailed_quiet(w, r, ws, connectionId, t) ==
  LET conns == w.connections[r] IN
  IF ws \in DOMAIN conns THEN w
  ELSE [w EXCEPT !.connections[r] =
          [s \in DOMAIN conns \cup {ws} |->
             IF s = ws THEN [id |-> connectionId, gigamlSession |-> <<>>]
             ELSE conns[s]]]
\* the catch of setupGigaMLSessionAsync (lines 296-327)
SetupFailed(w, r, ws, connectionId, t) ==
  LET conns == w.connections[r]
      w1 == IF ws \in DOMAIN conns THEN w
            ELSE [w EXCEPT !.connections[r] =
                    [s \in DOMAIN conns \cup {ws} |->
                       IF s = ws THEN [id |-> connectionId, gigamlSession |-> <<>>]
                       ELSE conns[s]]]
      w2 == PostNotice(w1, r, "error_", t, UnavailableText)
  IN [w2 EXCEPT !.thrown = FALSE]

\* lines 227-248 after the initiate call returned: the session, its row in
\* gigaml_sessions (connection_id is the primary key), then the await of
\* registerSessionInRouter; a failed call or a failed INSERT goes to the catch
InitiateReturned(w, task, ok, t) ==
  LET r == task.room
      session == [ticketId |-> task.ticketId, userId |-> task.connectionId,
                  status |-> "active", createdAt |-> t]
      row == [connection_id |-> task.connectionId, ticket_id |-> task.ticketId,
              user_id |-> task.connectionId, room_id |-> task.ticketId,
              status |-> "active", created_at |-> t]
      clash == \E i \in DOMAIN w.dbSessions[r] :
                  w.dbSessions[r][i].connection_id = task.connectionId
      w0 == [w EXCEPT !.tasks = @ \ {task},
                      !.gwCalls = IF ok THEN @ ELSE @ \cup {Failed(task)}]
  IN IF ok /\ ~clash
     THEN [DateNow(w0, t) EXCEPT
             !.dbSessions[r] = Append(@, row),
             !.tasks = @ \cup {Task("register", task.ws, r, task.connectionId,
                                    task.ticketId, <<session>>, "")}]
     ELSE SetupFailed(w0, r, task.ws, task.connectionId, t)

\* a setup that trusts the first registration: the router is not called
RegisterReturned_attachOnly(w, task, t) ==
  LET session == task.session[1]
      w1 == [DateNow(w, t) EXCEPT !.tasks = @ \ {task}]
  IN AttachSession(w1, task.room, task.ws, task.connectionId, session)
\* registerSessionInRouter(session.ticketId, ticketId) returned (lines 222,
\* 248): the router instance has run handleSessionRegistration; the setup
\* goes on with the attach
RegisterReturned(w, task, t) ==
  LET session == task.session[1]
      w1 == [DateNow(w, t) EXCEPT
               !.tasks = @ \ {task},
               !.registry = handleSessionRegistration(@, session.ticketId, task.ticketId, t)]
  IN AttachSession(w1, task.room, task.ws, task.connectionId, session)

\* ------------------------------------------------------ client frames --
\* JSON.parse throws on a frame that is not JSON
IsJson(frame) == "type" \in DOMAIN frame

SetConnection(w, r, ws, data) ==
  [w EXCEPT !.connections[r] =
     [s \in DOMAIN w.connections[r] \cup {ws} |-> IF s = ws THEN data ELSE w.connections[r][s]]]

\* sendMessageToGigaML(ticketId, content) up to the await of the call; its
\* message_id holds a crypto.randomUUID()
SendBegin(w, r, ws, ticketId, content, uuid) ==
  [w EXCEPT
     !.gwCalls = @ \cup {[op |-> "send", room |-> r, ticketId |-> ticketId,
                          key |-> uuid, content |-> content]},
     !.tasks = @ \cup {Task("send", ws, r, uuid, ticketId, <<>>, content)}]

\* lines 473-513: forward to the gateway with the session of the connection
\* data, or post the notice that the assistant is being set up
ForwardToGateway(w, r, ws, frame, t, uuid) ==
  LET session == w.connections[r][ws].gigamlSession IN
  IF session # <<>> /\ session[1].status = "active"
  THEN SendBegin(w, r, ws, session[1].ticketId, frame.content, uuid)
  ELSE IF session = <<>>
  THEN PostNotice(w, r, "error_", t, SettingUpText)
  ELSE w

\* SELECT * FROM gigaml_sessions WHERE status = 'active' ORDER BY created_at
\* DESC LIMIT 1: the rows the query can return (one of the newest)
NewestActiveRows(rows) ==
  {row \in Range(rows) :
     /\ row.status = "active"
     /\ \A other \in Range(rows) : other.status = "active" => other.created_at <= row.created_at}

\* lines 363-471: a user message on a socket that has no connection data.
\* pick is <<>> or the row the query of line 387 returned.
RecoverConnection(w, r, ws, frame, t, pick, uuid) ==
  LET active == SelectSeq(w.gigamlSessions[r], LAMBDA e : e.v.status = "active") IN
  IF active # <<>>
  THEN ForwardToGateway(
         SetConnection(w, r, ws, [id |-> active[1].k, gigamlSession |-> <<active[1].v>>]),
         r, ws, frame, t, uuid)
  ELSE IF pick # <<>>
  THEN LET session == SessionOfRow(pick[1])
           w1 == [w EXCEPT !.gigamlSessions[r] = MapSet(@, uuid, session)]
       IN ForwardToGateway(
            SetConnection(w1, r, ws, [id |-> uuid, gigamlSession |-> <<session>>]),
            r, ws, frame, t, uuid \o "m")
  ELSE \* no session to recover: new connection data, the notice, and the
       \* setup queued by Promise.resolve().then, which runs when the handler
       \* has returned; it is called without originalRoomId (line 428)
       LET w1 == SetConnection(w, r, ws, [id |-> uuid, gigamlSession |-> <<>>])
           w2 == PostNotice(w1, r, "info_", t, ReconnectingText)
       IN SetupBegin(w2, r, ws, uuid, IdOf(r))

\* handleWebSocketMessage up to its first await (lines 330-516); uuid is
\* the first value crypto.randomUUID() returns in it
handleWebSocketMessage(w, r, ws, frame, t, pick, uuid) ==
  LET w1 == broadcast(w, r, frame, {ws}) IN
  IF ~IsJson(frame) THEN [w1 EXCEPT !.thrown = TRUE]
  ELSE IF frame.type \notin {"add", "update"} THEN w1
  ELSE \* saveMessage(parsed): the cache keeps the frame as it is, type included
       LET w2 == saveMessage(w1, r, frame) IN
       IF w2.thrown \/ frame.role # "user" THEN w2
       ELSE IF ws \in DOMAIN w2.connections[r]
       THEN ForwardToGateway(w2, r, ws, frame, t, uuid)
       ELSE RecoverConnection(w2, r, ws, frame, t, pick, uuid)

\* a catch that only logs the error of the send call
SendReturned_silent(w, task, ok, t) ==
  [w EXCEPT !.tasks = @ \ {task},
            !.gwCalls = IF ok THEN @ ELSE @ \cup {Failed(task)}]
\* lines 479-496 after the send call returned
SendReturned(w, task, ok, t) ==
  LET w0 == [w EXCEPT !.tasks = @ \ {task},
                      !.gwCalls = IF ok THEN @ ELSE @ \cup {Failed(task)}]
  IN IF ok THEN w0 ELSE PostNotice(w0, task.room, "error_", t, ApologyText)

\* a close that also ends the session of the connection: closeGigaMLSession
\* and unregisterSessionFromRouter called from the close handler
handleWebSocketClose_closing(w, r, ws) ==
  LET conns == w.connections[r]
      held == ws \in DOMAIN conns /\ conns[ws].gigamlSession # <<>>
      ticketId == conns[ws].gigamlSession[1].ticketId
      w1 == IF held
            THEN [w EXCEPT
                    !.gigamlSessions[r] = MapDelete(@, conns[ws].id),
                    !.dbSessions[r] = [i \in DOMAIN @ |->
                                         IF @[i].ticket_id = ticketId
                                         THEN [@[i] EXCEPT !.status = "closed"] ELSE @[i]],
                    !.registry = SelectSeq(@, LAMBDA e : e.ticket_id # ticketId),
                    !.gwCalls = @ \cup {[op |-> "close", room |-> r, ticketId |-> ticketId,
                                         key |-> conns[ws].id, content |-> ""]}]
            ELSE w
  IN [w1 EXCEPT !.connections[r] = [s \in (DOMAIN conns) \ {ws} |-> conns[s]]]
\* a close that takes the session away from every connection of the room
\* that is bound to the session of the closing connection
handleWebSocketClose_unbindAll(w, r, ws) ==
  LET conns == w.connections[r]
      held == ws \in DOMAIN conns /\ conns[ws].gigamlSession # <<>>
      w1 == IF held
            THEN [w EXCEPT
                    !.gigamlSessions[r] =
                       SelectSeq(@, LAMBDA e : e.v.ticketId # conns[ws].gigamlSession[1].ticketId),
                    !.connections[r] =
                       [s \in DOMAIN conns |->
                          IF conns[s].gigamlSession = conns[ws].gigamlSession
                          THEN [conns[s] EXCEPT !.gigamlSession = <<>>] ELSE conns[s]]]
            ELSE w
  IN [w1 EXCEPT !.connections[r] = [s \in (DOMAIN conns) \ {ws} |-> w1.connections[r][s]]]
\* handleWebSocketClose (lines 518-554)
handleWebSocketClose(w, r, ws) ==
  LET conns == w.connections[r]
      w1 == IF ws \in DOMAIN conns /\ conns[ws].gigamlSession # <<>>
            THEN [w EXCEPT !.gigamlSessions[r] = MapDelete(@, conns[ws].id)]
            ELSE w
  IN [w1 EXCEPT !.connections[r] = [s \in (DOMAIN conns) \ {ws} |-> conns[s]]]

\* fetch with an upgrade header (lines 624-681), up to the return of the
\* response: the connection data, acceptWebSocket, and the timer
AcceptWebSocket(w, r, ws, connectionId) ==
  LET w1 == SetConnection(w, r, ws, [id |-> connectionId, gigamlSession |-> <<>>]) IN
  [w1 EXCEPT !.tasks = @ \cup {Task("timer", ws, r, connectionId, r, <<>>, "")}]

\* a timer that starts the session setup and leaves the replay and the
\* acknowledgment for later
PostConnection_setupOnly(w, task) ==
  LET w0 == [w EXCEPT !.tasks = @ \ {task}] IN
  IF ~CanSend(task.ws) THEN w0
  ELSE SetupBegin(w0, task.room, task.ws, task.connectionId, task.ticketId)
\* the timer of lines 654-679: the replay and the acknowledgment, then the
\* session setup; a send that throws ends it
PostConnection(w, task) ==
  LET w0 == [w EXCEPT !.tasks = @ \ {task}] IN
  IF ~CanSend(task.ws) THEN w0
  ELSE SetupBegin(
         [w0 EXCEPT !.outbox[task.ws] =
            IF cfg.logOutbox
            THEN @ \o <<[type |-> "all", messages |-> w.messages[task.room]],
                        [type |-> "connection", status |-> "connected",
                         connectionId |-> task.connectionId]>>
            ELSE @],
         task.room, task.ws, task.connectionId, task.ticketId)

\* the constructor on a rebuilt instance (lines 22-35, 52-66)
Rebuild(w, r) ==
  [w EXCEPT !.messages[r] = LoadMessages(w.dbMessages[r]),
            !.connections[r] = <<>>,
            !.gigamlSessions[r] = <<>>]

\* ------------------------------------------------------------ webhook --
\* authHeader.replace("Bearer ", "")
StripBearer(h) == IF h.scheme = "Bearer " THEN h.token ELSE h.scheme \o h.token

RECURSIVE JoinSpace(_)
JoinSpace(texts) ==
  IF texts = <<>> THEN ""
  ELSE IF Len(texts) = 1 THEN texts[1]
  ELSE texts[1] \o " " \o JoinSpace(Tail(texts))

TextsOf(blocks) ==
  LET kept == SelectSeq(blocks, LAMBDA b : b.type = "text") IN
  [i \in DOMAIN kept |-> kept[i].text]

\* lines 774-787: the text of body.message.content
ExtractContent(content) ==
  IF content.kind = "array" THEN JoinSpace(TextsOf(content.blocks))
  ELSE IF content.kind = "string" THEN content.text
  ELSE DefaultReplyText

\* handleGigaMLWebhook of instance r (lines 708-820); w.status is the
\* status of the response
handleGigaMLWebhook(w, r, req, t) ==
  IF req.auth = <<>> \/ StripBearer(req.auth[1]) # ApiKey
  THEN [w EXCEPT !.status = 401]
  ELSE IF req.ticket = <<>> \/ req.message = <<>>
  THEN [w EXCEPT !.status = 400]
  ELSE LET ticketId == req.ticket[1]
           inMemory == \E i \in DOMAIN w.gigamlSessions[r] :
                          w.gigamlSessions[r][i].v.ticketId = ticketId
           inTable == \E i \in DOMAIN w.dbSessions[r] :
                          /\ w.dbSessions[r][i].ticket_id = ticketId
                          /\ w.dbSessions[r][i].status = "active"
           assistantMessage ==
             [id |-> "gigaml_" \o ToString(t), content |-> ExtractContent(req.message[1]),
              user |-> "Rio Assistant", role |-> "assistant"]
           w1 == saveMessage(DateNow(w, t), r, assistantMessage)
       IN IF ~inMemory /\ ~inTable THEN [w EXCEPT !.status = 404]
          ELSE IF w1.thrown THEN [w1 EXCEPT !.status = 500, !.room = r]
          ELSE IF DOMAIN w1.connections[r] # {}
          THEN [broadcast(w1, r, AddFrame(assistantMessage), {}) EXCEPT !.status = 200, !.room = r]
          ELSE [w1 EXCEPT !.status = 200, !.room = r]

\* a router that takes an unregistered ticket for the name of its room
routeGigaMLWebhook_direct(w, req, t) ==
  IF req.ticket = <<>> THEN [w EXCEPT !.status = 400]
  ELSE LET roomId == RegistryLookup(w.registry, req.ticket[1]) IN
       IF roomId # <<>> THEN handleGigaMLWebhook(w, roomId[1], req, t)
       ELSE IF req.ticket[1] \in Instances
       THEN handleGigaMLWebhook(w, req.ticket[1], req, t)
       ELSE [w EXCEPT !.status = 404]
\* routeGigaMLWebhook of the router instance (lines 864-936)
routeGigaMLWebhook(w, req, t) ==
  IF req.ticket = <<>> THEN [w EXCEPT !.status = 400]
  ELSE LET roomId == RegistryLookup(w.registry, req.ticket[1]) IN
       IF roomId = <<>> THEN [w EXCEPT !.status = 404]
       ELSE handleGigaMLWebhook(w, roomId[1], req, t)

\* the worker's fetch on POST /webhook/gigaml (lines 967-1032)
WorkerWebhook(w, req, t) ==
  IF ~req.json \/ req.ticket = <<>> THEN [w EXCEPT !.status = 400]
  ELSE routeGigaMLWebhook(w, req, t)

HookTickets == {"r1", "r2", IdOf("r1"), "zz"}
HookContents ==
  {[kind |-> "string", text |-> "hi", blocks |-> <<>>],
   [kind |-> "string", text |-> "say \"x\"", blocks |-> <<>>],
   [kind |-> "array", text |-> "",
    blocks |-> <<[type |-> "text", text |-> "Hello"], [type |-> "image", text |-> ""],
                 [type |-> "text", text |-> "there"]>>],
   [kind |-> "array", text |-> "", blocks |-> <<[type |-> "image", text |-> ""]>>],
   [kind |-> "absent", text |-> "", blocks |-> <<>>],
   [kind |-> "number", text |-> "", blocks |-> <<>>]}
HookRequests ==
  {[auth |-> a, json |-> TRUE, ticket |-> tk, message |-> m] :
     a \in AuthHeaders, tk \in {<<>>} \cup {<<x>> : x \in HookTickets},
     m \in {<<>>} \cup {<<c>> : c \in HookContents}}
  \cup {[auth |-> a, json |-> FALSE, ticket |-> <<>>, message |-> <<>>] : a \in AuthHeaders}
\* the requests of a gateway that behaves
GoodHookRequests ==
  {req \in HookRequests :
     /\ req.auth = <<[scheme |-> "Bearer ", token |-> "secret"]>>
     /\ req.ticket \in {<<"r1">>, <<"r2">>, <<IdOf("r1")>>}
     /\ req.message = <<[kind |-> "string", text |-> "hi", blocks |-> <<>>]>>}

NoHook == [n |-> 0, req |-> [json |-> FALSE], status |-> 0, room |-> ""]
NoMsg == [n |-> 0, ws |-> 0, frame |-> [raw |-> ""]]

\* ------------------------------------------------------------- actions --
InitWith(c) ==
  /\ cfg = c
  /\ messages = [i \in Instances |-> <<>>]
  /\ dbMessages = [i \in Instances |-> <<>>]
  /\ connections = [i \in Instances |-> <<>>]
  /\ gigamlSessions = [i \in Instances |-> <<>>]
  /\ dbSessions = [i \in Instances |-> <<>>]
  /\ registry = <<>>
  /\ wsState = [s \in Sockets |-> "new"]
  /\ wsRoom = [s \in Sockets |-> ""]
  /\ outbox = [s \in Sockets |-> <<>>]
  /\ tasks = {}
  /\ gwCalls = {}
  /\ now = 0
  /\ writes = [i \in Instances |-> <<>>]
  /\ msgCount = 0
  /\ hookCount = 0
  /\ lastHook = NoHook
  /\ lastMsg = NoMsg
  /\ evictions = 0

\* in a run that ends with its webhooks nothing happens after the last one
Running == ~cfg.hookLast \/ hookCount < cfg.maxHooks

\* a client opens /parties/chat/<r>; sockets are taken in order
Connect ==
  \E s \in Sockets, r \in cfg.rooms :
    /\ Running
    /\ wsState[s] = "new"
    /\ \A s2 \in Sockets : s2 < s => wsState[s2] # "new"
    /\ \A r2 \in cfg.rooms : RoomOrder(r2) < RoomOrder(r) => r2 \in Range(wsRoom)
    /\ Commit(AcceptWebSocket(World, r, s, UuidOfSocket(s)))
    /\ wsState' = [wsState EXCEPT ![s] = "open"]
    /\ wsRoom' = [wsRoom EXCEPT ![s] = r]
    /\ UNCHANGED <<msgCount, hookCount, lastHook, lastMsg, evictions>>

TimerFired ==
  \E task \in tasks :
    /\ Running
    /\ task.kind = "timer"
    /\ Commit(PostConnection(World, task))
    /\ UNCHANGED <<wsState, wsRoom, msgCount, hookCount, lastHook, lastMsg, evictions>>

InitiateReturn ==
  \E task \in tasks, ok \in BOOLEAN, t \in Clock :
    /\ Running
    /\ task.kind = "initiate"
    /\ Commit(InitiateReturned(World, task, ok, t))
    /\ UNCHANGED <<wsState, wsRoom, msgCount, hookCount, lastHook, lastMsg, evictions>>

RegisterReturn ==
  \E task \in tasks, t \in Clock :
    /\ Running
    /\ task.kind = "register"
    /\ Commit(RegisterReturned(World, task, t))
    /\ UNCHANGED <<wsState, wsRoom, msgCount, hookCount, lastHook, lastMsg, evictions>>

ClientMessage ==
  \E s \in Sockets, frame \in cfg.frames, t \in Clock :
    /\ Running
    /\ wsState[s] = "open"
    /\ msgCount < cfg.maxMsgs
    /\ LET rows == NewestActiveRows(dbSessions[wsRoom[s]]) IN
       \E pick \in IF rows = {} THEN {<<>>} ELSE {<<row>> : row \in rows} :
         Commit(handleWebSocketMessage(World, wsRoom[s], s, frame, t, pick,
                                       UuidOfFrame(msgCount)))
    /\ msgCount' = msgCount + 1
    /\ lastMsg' = [n |-> msgCount + 1, ws |-> s, frame |-> frame]
    /\ UNCHANGED <<wsState, wsRoom, hookCount, lastHook, evictions>>

SendReturn ==
  \E task \in tasks, ok \in BOOLEAN, t \in Clock :
    /\ Running
    /\ task.kind = "send"
    /\ Commit(SendReturned(World, task, ok, t))
    /\ UNCHANGED <<wsState, wsRoom, msgCount, hookCount, lastHook, lastMsg, evictions>>

Close ==
  \E s \in Sockets :
    /\ Running
    /\ wsState[s] = "open"
    /\ Commit(handleWebSocketClose(World, wsRoom[s], s))
    /\ wsState' = [wsState EXCEPT ![s] = "closed"]
    /\ UNCHANGED <<wsRoom, msgCount, hookCount, lastHook, lastMsg, evictions>>

\* an idle instance is dropped from memory; its next event rebuilds it
Evict ==
  \E r \in cfg.rooms :
    /\ Running
    /\ evictions < MaxEvictions
    /\ \A task \in tasks : task.room # r
    /\ Rebuild(World, r) # World
    /\ Commit(Rebuild(World, r))
    /\ evictions' = evictions + 1
    /\ UNCHANGED <<wsState, wsRoom, msgCount, hookCount, lastHook, lastMsg>>

Webhook ==
  \E req \in cfg.requests, t \in Clock :
    /\ hookCount < cfg.maxHooks
    /\ LET w == WorkerWebhook(World, req, t) IN
         /\ Commit(w)
         /\ lastHook' = [n |-> hookCount + 1, req |-> req, status |-> w.status, room |-> w.room]
    /\ hookCount' = hookCount + 1
    /\ UNCHANGED <<wsState, wsRoom, msgCount, lastMsg, evictions>>

\* the frames of a client that writes one message, with each kind of text
SessionFrames ==
  {f \in ChatFrames : f.id = "m1" /\ f.type = "add" /\ f.role = "user"} \cup OtherFrames
\* the frames of clients that write and rewrite two messages: m1 by one
\* author, rewritten by another, written with a double quote, and m2
StoreFrames ==
  {f \in ChatFrames :
     /\ f.role = "assistant" /\ f.type = "update"
     /\ \/ f.user = "Al" /\ f.id = "m1" /\ f.content \in {"hi"} \cup EscapedContents
        \/ f.user = "Bo" /\ f.id = "m1" /\ f.content = "yo"
        \/ f.user = "Al" /\ f.id = "m2" /\ f.content = "hi"}

\* sessions, registry and the webhooks of a gateway that behaves
MainRun ==
  [frames |-> SessionFrames, requests |-> GoodHookRequests, rooms |-> RoomNames,
   maxMsgs |-> MaxClientMsgs, maxHooks |-> MaxWebhooks, maxClock |-> MaxClock,
   hookLast |-> FALSE, logOutbox |-> FALSE, logWrites |-> FALSE]
\* every webhook request, after every run of connections
HookRun ==
  [frames |-> {}, requests |-> HookRequests, rooms |-> RoomNames,
   maxMsgs |-> 0, maxHooks |-> MaxWebhooks, maxClock |-> 0,
   hookLast |-> TRUE, logOutbox |-> TRUE, logWrites |-> FALSE]
\* the message store of one room and the replays sent from it
StoreRun ==
  [frames |-> StoreFrames, requests |-> {}, rooms |-> {"r1"},
   maxMsgs |-> MaxStoreMsgs, maxHooks |-> 0, maxClock |-> 0,
   hookLast |-> FALSE, logOutbox |-> TRUE, logWrites |-> TRUE]
\* one room, its client frames and everything the server sends
ChatRun ==
  [frames |-> SessionFrames, requests |-> {}, rooms |-> {"r1"},
   maxMsgs |-> MaxClientMsgs, maxHooks |-> 0, maxClock |-> MaxClock,
   hookLast |-> FALSE, logOutbox |-> TRUE, logWrites |-> FALSE]
\* one room and the replies the gateway posts for it, one after the other
ReplyRun ==
  [frames |-> {}, requests |-> {req \in GoodHookRequests : req.ticket = <<"r1">>},
   rooms |-> {"r1"},
   maxMsgs |-> 0, maxHooks |-> MaxReplies, maxClock |-> MaxClock,
   hookLast |-> FALSE, logOutbox |-> TRUE, logWrites |-> FALSE]
\* one room and the replies the gateway posts while clients come and go,
\* with each kind of text
OfflineRun ==
  [frames |-> {},
   requests |-> {req \in HookRequests :
                   /\ req.auth = <<[scheme |-> "Bearer ", token |-> ApiKey]>>
                   /\ req.ticket = <<"r1">>
                   /\ req.message # <<>> /\ req.message[1].kind = "string"},
   rooms |-> {"r1"},
   maxMsgs |-> 0, maxHooks |-> MaxWebhooks, maxClock |-> 0,
   hookLast |-> FALSE, logOutbox |-> TRUE, logWrites |-> FALSE]
\* one room, the setups of its connections and one message of a user
LiveRun ==
  [frames |-> {f \in SessionFrames : IsJson(f) /\ f.type = "add" /\ f.content = "hi"},
   requests |-> {}, rooms |-> {"r1"},
   maxMsgs |-> MaxClientMsgs, maxHooks |-> 0, maxClock |-> 0,
   hookLast |-> FALSE, logOutbox |-> TRUE, logWrites |-> FALSE]
\* a client that opens /parties/chat/webhook-router and writes there
RouterRun ==
  [frames |-> SessionFrames, requests |-> {}, rooms |-> {RouterName},
   maxMsgs |-> MaxClientMsgs, maxHooks |-> 0, maxClock |-> 0,
   hookLast |-> FALSE, logOutbox |-> FALSE, logWrites |-> FALSE]
\* the frames of a user who writes two messages and rewrites the first
OrderFrames ==
  {f \in ChatFrames :
     /\ f.role = "user" /\ f.type = "add"
     /\ \/ f.id = "m1" /\ f.content \in {"hi"} \cup EscapedContents
        \/ f.id = "m2" /\ f.content = "hi"}
\* one room, the frames of its users in the order they come in
OrderRun ==
  [frames |-> OrderFrames, requests |-> {}, rooms |-> {"r1"},
   maxMsgs |-> MaxOrderMsgs, maxHooks |-> 0, maxClock |-> 0,
   hookLast |-> FALSE, logOutbox |-> TRUE, logWrites |-> TRUE]

Next ==
  \/ Connect
  \/ TimerFired
  \/ InitiateReturn
  \/ RegisterReturn
  \/ ClientMessage
  \/ SendReturn
  \/ Close
  \/ Evict
  \/ Webhook

NextHook ==
  \/ Connect
  \/ TimerFired
  \/ InitiateReturn
  \/ RegisterReturn
  \/ Close
  \/ Evict
  \/ Webhook

NextStore ==
  \/ Connect
  \/ TimerFired
  \/ InitiateReturn
  \/ RegisterReturn
  \/ ClientMessage
  \/ Close
  \/ Evict
NextChat ==
  \/ Connect
  \/ TimerFired
  \/ InitiateReturn
  \/ RegisterReturn
  \/ ClientMessage
  \/ SendReturn
  \/ Close
  \/ Evict
\* the connections stay and the instance stays in memory
NextOrder ==
  \/ Connect
  \/ TimerFired
  \/ InitiateReturn
  \/ RegisterReturn
  \/ ClientMessage
  \/ SendReturn

NextReply ==
  \/ Connect
  \/ TimerFired
  \/ InitiateReturn
  \/ RegisterReturn
  \/ Close
  \/ Evict
  \/ Webhook

Init == InitWith(MainRun)
Spec == Init /\ [][Next]_vars
SpecHook == InitWith(HookRun) /\ [][NextHook]_vars
SpecStore == InitWith(StoreRun) /\ [][NextStore]_vars
SpecChat == InitWith(ChatRun) /\ [][NextChat]_vars
SpecReply == InitWith(ReplyRun) /\ [][NextReply]_vars
SpecOrder == InitWith(OrderRun) /\ [][NextOrder]_vars
SpecOffline == InitWith(OfflineRun) /\ [][NextReply]_vars
SpecRouter == InitWith(RouterRun) /\ [][NextChat]_vars
\* every timer fires and every call of a setup returns or fails
SpecLive ==
  /\ InitWith(LiveRun) /\ [][NextChat]_vars
  /\ WF_vars(TimerFired) /\ WF_vars(InitiateReturn) /\ WF_vars(RegisterReturn)

\* ------------------------------------------------------------- claims --
ActiveRows(r) == {i \in DOMAIN dbSessions[r] : dbSessions[r][i].status = "active"}
PendingIn(r) == {task \in tasks : task.room = r}
\* the step handles a webhook request
HookStep == hookCount' = hookCount + 1
\* Authorization: Bearer <env.GIGAML_API_KEY>
BearerOk(req) == req.auth = <<[scheme |-> "Bearer ", token |-> ApiKey]>>

\* the store an upsert by id gives from a sequence of writes: a new id is
\* added at the end, a known id has its entry replaced where it stands
RECURSIVE UpsertAll(_)
UpsertAll(log) ==
  IF log = <<>> THEN <<>>
  ELSE LET before == UpsertAll(SubSeq(log, 1, Len(log) - 1))
           m == log[Len(log)]
       IN IF \E i \in DOMAIN before : before[i].id = m.id
          THEN [i \in DOMAIN before |-> IF before[i].id = m.id THEN m ELSE before[i]]
          ELSE Append(before, m)
LastWrite(log, id) ==
  log[CHOOSE i \in DOMAIN log :
        /\ log[i].id = id
        /\ \A j \in DOMAIN log : log[j].id = id => j <= i]
HoldsOnce(store, id, content) ==
  /\ Cardinality({k \in DOMAIN store : store[k].id = id}) = 1
  /\ \A k \in DOMAIN store : store[k].id = id => store[k].content = content

\* C1: after any sequence of writes to a room, its message store (the cache
\* and the table behind it) holds exactly one entry for every id written,
\* and that entry has the content of the last write of the id.
C1_UpsertKeepsLastWrite ==
  \A r \in Instances : \A i \in DOMAIN writes[r] :
    LET id == writes[r][i].id
        content == LastWrite(writes[r], id).content
    IN /\ HoldsOnce(messages[r], id, content)
       /\ HoldsOnce(dbMessages[r], id, content)

\* C2: a room that has initiated a session with ticket t and has no setup
\* under way gets every webhook that carries t: the request is answered 200
\* and its message goes into that room and into no other, also after the
\* room has lost its memory.
C2_WebhookReachesRoom ==
  [][HookStep =>
       LET req == lastHook'.req IN
       \A r \in cfg.rooms :
         (/\ BearerOk(req) /\ req.json /\ req.ticket # <<>> /\ req.message # <<>>
          /\ PendingIn(r) = {}
          /\ \E i \in ActiveRows(r) : dbSessions[r][i].ticket_id = req.ticket[1])
         => /\ lastHook'.status = 200
            /\ lastHook'.room = r
            /\ Len(dbMessages'[r]) = Len(dbMessages[r]) + 1
            /\ \A x \in Instances \ {r} : dbMessages'[x] = dbMessages[x]]_vars

\* C3: closing a connection leaves the registry, the session rows, the
\* message store and the gateway alone (no close call, no unregistration); it
\* removes the entry of that connection and the mapping under its id, nothing else.
C3_CloseKeepsSession ==
  [][\A s \in Sockets :
       (wsState[s] = "open" /\ wsState'[s] = "closed") =>
         LET r == wsRoom[s]
             conns == connections[r]
         IN /\ registry' = registry
            /\ dbSessions' = dbSessions
            /\ messages' = messages
            /\ dbMessages' = dbMessages
            /\ gwCalls' = gwCalls
            /\ tasks' = tasks
            /\ connections' = [connections EXCEPT
                                 ![r] = [x \in (DOMAIN conns) \ {s} |-> conns[x]]]
            /\ gigamlSessions' = [gigamlSessions EXCEPT
                                    ![r] = IF s \in DOMAIN conns
                                           THEN MapDelete(@, conns[s].id) ELSE @]]_vars
\* a connection is closed whose setup made a session that is still active
\* and still registered
C3_ClosedWithSession ==
  \E s \in Sockets :
    /\ wsState[s] = "closed"
    /\ \E i \in ActiveRows(wsRoom[s]) :
         /\ dbSessions[wsRoom[s]][i].connection_id = UuidOfSocket(s)
         /\ RegistryLookup(registry, dbSessions[wsRoom[s]][i].ticket_id) = <<wsRoom[s]>>
    /\ ~MapHas(gigamlSessions[wsRoom[s]], UuidOfSocket(s))

\* C4: every replay (the "all" frame a new connection gets) is the room's
\* message sequence, the messages in the order of their first write with the
\* last write of each, however many connections came and went before.
C4_ReplayIsHistory ==
  [][\A s \in Sockets :
       \A k \in DOMAIN outbox'[s] :
         (k > Len(outbox[s]) /\ outbox'[s][k].type = "all")
           => outbox'[s][k].messages = UpsertAll(writes[wsRoom[s]])]_vars

\* C5: over any interleaving of setups, overlapping ones too, a room makes
\* at most one initiate call and has at most one active session row.
C5_OneSessionPerRoom ==
  \A r \in Instances :
    /\ Cardinality({c \in gwCalls : c.op = "initiate" /\ c.room = r}) <= 1
    /\ Cardinality(ActiveRows(r)) <= 1

\* C6: every active session row of a room has exactly one registry entry
\* with its ticket, and the entry points at that room; the entry is there
\* as soon as the row is.
C6_ActiveRowRegistered ==
  \A r \in Instances : \A i \in ActiveRows(r) :
    LET hits == {k \in DOMAIN registry : registry[k].ticket_id = dbSessions[r][i].ticket_id}
    IN /\ Cardinality(hits) = 1
       /\ \A k \in hits : registry[k].room_id = r

\* C7: the registry never holds two entries with the same ticket.
C7_OneEntryPerTicket ==
  \A i, j \in DOMAIN registry :
    registry[i].ticket_id = registry[j].ticket_id => i = j
\* two connections of one room hold a session: the ticket was registered twice
C7_RegisteredTwice ==
  \E r \in Instances :
    /\ Cardinality({s \in DOMAIN connections[r] : connections[r][s].gigamlSession # <<>>}) = 2
    /\ Len(registry) = 1

\* C8: a webhook whose ticket has no registry entry is answered 404 and
\* changes nothing, with an empty registry too.
C8_UnknownTicket404 ==
  [][HookStep =>
       LET req == lastHook'.req IN
       (req.json /\ req.ticket # <<>> /\ RegistryLookup(registry, req.ticket[1]) = <<>>)
         => /\ lastHook'.status = 404
            /\ UNCHANGED <<messages, dbMessages, connections, gigamlSessions,
                           dbSessions, registry, outbox, gwCalls, tasks>>]_vars
\* a request for a ticket was answered 404 while a room had an open
\* connection and the registry was empty
C8_Answered404 ==
  /\ lastHook.n > 0
  /\ lastHook.status = 404
  /\ lastHook.req.ticket # <<>>
  /\ registry = <<>>
  /\ \E s \in Sockets : wsState[s] = "open"

\* content that is absent, neither a string nor a list, or a list without
\* a text block
MalformedContent(c) ==
  \/ c.kind \notin {"string", "array"}
  \/ c.kind = "array" /\ TextsOf(c.blocks) = <<>>

\* C9: an authorized webhook for a registered ticket whose message content
\* is absent, neither a string nor a list, or a list without a text block
\* is answered 400, and nothing is stored or broadcast.
C9_MalformedContent400 ==
  [][HookStep =>
       LET req == lastHook'.req IN
       (/\ BearerOk(req) /\ req.json /\ req.ticket # <<>> /\ req.message # <<>>
        /\ RegistryLookup(registry, req.ticket[1]) # <<>>
        /\ MalformedContent(req.message[1]))
         => /\ lastHook'.status = 400
            /\ UNCHANGED <<messages, dbMessages, outbox>>]_vars

\* C10: a webhook without the bearer credential, or with another one, is
\* answered 401 whatever its payload and its ticket.
C10_Unauthorized401 ==
  (lastHook.n > 0 /\ ~BearerOk(lastHook.req)) => lastHook.status = 401

\* the text of the text blocks of a list, in their order, with one space
\* between two of them
RECURSIVE TextJoined(_)
TextJoined(blocks) ==
  IF blocks = <<>> THEN ""
  ELSE LET rest == Tail(blocks) IN
       IF Head(blocks).type # "text" THEN TextJoined(rest)
       ELSE IF \A i \in DOMAIN rest : rest[i].type # "text" THEN Head(blocks).text
       ELSE Head(blocks).text \o " " \o TextJoined(rest)
ExpectedReply(c) == IF c.kind = "string" THEN c.text ELSE TextJoined(c.blocks)
\* room r knows a session of the ticket, in memory or as an active row
HasSession(r, ticketId) ==
  \/ \E i \in DOMAIN gigamlSessions[r] : gigamlSessions[r][i].v.ticketId = ticketId
  \/ \E i \in ActiveRows(r) : dbSessions[r][i].ticket_id = ticketId

\* C11: an authorized webhook for a registered ticket whose room knows the
\* session, with content that is a string or a list with a text block, gives
\* exactly one new assistant message in the room's store; its content is the
\* string unchanged, or the texts of the text blocks in order joined by
\* single spaces.
C11_ReplyText ==
  [][HookStep =>
       LET req == lastHook'.req IN
       \A r \in Instances :
         (/\ BearerOk(req) /\ req.json /\ req.ticket # <<>> /\ req.message # <<>>
          /\ RegistryLookup(registry, req.ticket[1]) = <<r>>
          /\ HasSession(r, req.ticket[1])
          /\ ~MalformedContent(req.message[1]))
         => /\ lastHook'.status = 200
            /\ \E m \in Range(dbMessages'[r]) :
                 /\ m.role = "assistant"
                 /\ m.content = ExpectedReply(req.message[1])
                 /\ dbMessages'[r] = Append(dbMessages[r], m)
                 /\ messages'[r] = Append(messages[r], m)]_vars

\* the continuation ended in this step with an error of the gateway
FailedNow(task) ==
  /\ task \in tasks /\ task \notin tasks'
  /\ Failed(task) \in gwCalls' \ gwCalls
\* the store holds a message of the assistant role with this text
HoldsText(store, text) ==
  \E k \in DOMAIN store : store[k].role = "assistant" /\ store[k].content = text
\* this step sent exactly one frame on socket s: the "add" of this text
GotText(s, text) ==
  /\ Len(outbox'[s]) = Len(outbox[s]) + 1
  /\ SubSeq(outbox'[s], 1, Len(outbox[s])) = outbox[s]
  /\ LET f == outbox'[s][Len(outbox'[s])] IN
       f.type = "add" /\ f.role = "assistant" /\ f.content = text

\* C12: when the send call of a user message fails, no socket is closed and
\* the open connections of the room stay in its connection set, the user's
\* messages stay in the store, the sessions and the registry are unchanged,
\* and one apology of the assistant role is stored and sent to every open
\* connection of the room.
C12_SendFailureApology ==
  [][\A task \in tasks :
       (task.kind = "send" /\ FailedNow(task)) =>
         LET r == task.room IN
         /\ wsState' = wsState
         /\ \A s \in DOMAIN connections[r] :
              CanSend(s) => /\ s \in DOMAIN connections'[r]
                            /\ connections'[r][s] = connections[r][s]
                            /\ GotText(s, ApologyText)
         /\ \A k \in DOMAIN dbMessages[r] :
              dbMessages[r][k].role = "user" =>
                /\ dbMessages'[r][k] = dbMessages[r][k]
                /\ messages'[r][k] = messages[r][k]
         /\ gigamlSessions' = gigamlSessions
         /\ dbSessions' = dbSessions
         /\ registry' = registry
         /\ HoldsText(dbMessages'[r], ApologyText)
         /\ HoldsText(messages'[r], ApologyText)
         /\ Len(dbMessages'[r]) <= Len(dbMessages[r]) + 1]_vars
\* a send call has failed, the apology is in the store and was sent to the
\* connection the user's message came from, which is still open
C12_ApologyPosted ==
  \E c \in gwCalls, s \in Sockets :
    /\ c.op = "send:failed"
    /\ HoldsText(dbMessages[c.room], ApologyText)
    /\ wsRoom[s] = c.room /\ wsState[s] = "open" /\ s \in DOMAIN connections[c.room]
    /\ \E k \in DOMAIN outbox[s] : outbox[s][k].type = "add" /\ outbox[s][k].content = ApologyText
    /\ \E k \in DOMAIN dbMessages[c.room] :
         dbMessages[c.room][k].role = "user" /\ dbMessages[c.room][k].content = c.content

\* C13: when the initiate call of a setup fails, the room has no session:
\* no session row, no registry entry for it, no session mapping and no
\* session in the connection's data; the connection, if open, is in the
\* connection set; and one notice of the assistant role is stored and sent
\* to every open connection of the room.
C13_InitiateFailureAbsent ==
  [][\A task \in tasks :
       (task.kind = "initiate" /\ FailedNow(task)) =>
         LET r == task.room IN
         /\ dbSessions'[r] = <<>>
         /\ \A k \in DOMAIN registry' :
              registry'[k].room_id # r /\ registry'[k].ticket_id # task.ticketId
         /\ gigamlSessions'[r] = <<>>
         /\ CanSend(task.ws) =>
              /\ task.ws \in DOMAIN connections'[r]
              /\ connections'[r][task.ws].gigamlSession = <<>>
         /\ \A s \in DOMAIN connections[r] : CanSend(s) => GotText(s, UnavailableText)
         /\ HoldsText(dbMessages'[r], UnavailableText)
         /\ HoldsText(messages'[r], UnavailableText)]_vars

\* the step handles a client frame
MsgStep == msgCount' = msgCount + 1
\* the frames this step sent on socket s
SentNow(s) == {outbox'[s][k] : k \in (DOMAIN outbox'[s]) \ (DOMAIN outbox[s])}
\* the frame is a message of the user role
UserMessage(f) == IsJson(f) /\ f.type \in {"add", "update"} /\ f.role = "user"

\* C14: a user message received on a connection that has no session yet is
\* stored and sent to the other open connections of the room, and either it
\* is forwarded to the gateway or a notice of the room is stored and sent to
\* the sender.
C14_NoSessionNoSilence ==
  [][MsgStep =>
       LET s == lastMsg'.ws
           f == lastMsg'.frame
           r == wsRoom[s]
       IN (/\ UserMessage(f)
           /\ s \in DOMAIN connections[r] => connections[r][s].gigamlSession = <<>>)
          => /\ \E k \in DOMAIN dbMessages'[r] :
                  dbMessages'[r][k].id = f.id /\ dbMessages'[r][k].content = f.content
             /\ \A s2 \in (DOMAIN connections[r]) \ {s} : CanSend(s2) => f \in SentNow(s2)
             /\ \/ \E c \in gwCalls' \ gwCalls : c.op = "send" /\ c.content = f.content
                \/ \E text \in {SettingUpText, ReconnectingText} :
                     /\ HoldsText(dbMessages'[r], text)
                     /\ \E g \in SentNow(s) : g.type = "add" /\ g.content = text]_vars

\* C15: every add or update frame received from a connection is sent as it
\* is to every other open connection of the same room, and is not sent back
\* to the sender.
C15_EchoToOthers ==
  [][MsgStep =>
       LET s == lastMsg'.ws
           f == lastMsg'.frame
           r == wsRoom[s]
       IN (IsJson(f) /\ f.type \in {"add", "update"})
          => /\ \A s2 \in Sockets \ {s} :
                  (wsState[s2] = "open" /\ wsRoom[s2] = r) => f \in SentNow(s2)
             /\ f \notin SentNow(s)]_vars

\* C16: a message that is in the cache and in the durable table has the
\* same author and the same role in both, also after an update that re-uses
\* its id with another author or role.
C16_SameAuthorAndRole ==
  \A r \in Instances : \A k \in DOMAIN dbMessages[r] : \A j \in DOMAIN messages[r] :
    messages[r][j].id = dbMessages[r][k].id
      => /\ messages[r][j].user = dbMessages[r][k].user
         /\ messages[r][j].role = dbMessages[r][k].role

\* C17: a write that fails in the durable table fails as a whole: the cache
\* holds no message, and no content of a message, that the table lacks.
C17_CacheWithinTable ==
  \A r \in Instances : \A j \in DOMAIN messages[r] :
    \E k \in DOMAIN dbMessages[r] :
      /\ dbMessages[r][k].id = messages[r][j].id
      /\ dbMessages[r][k].content = messages[r][j].content

\* C18: in the broadcast of a delivered webhook message, a connection
\* whose send fails is removed from the room's connection set and gets
\* nothing, no other connection is removed, every other connection gets the
\* frame, and no error reaches the caller: the request is answered 200.
C18_FailedSendDropsOne ==
  [][HookStep =>
       \A r \in Instances :
         (lastHook'.room = r /\ dbMessages'[r] # dbMessages[r]) =>
           /\ lastHook'.status = 200
           /\ \A s \in DOMAIN connections[r] :
                IF CanSend(s)
                THEN /\ s \in DOMAIN connections'[r]
                     /\ connections'[r][s] = connections[r][s]
                     /\ outbox'[s] = Append(outbox[s],
                                            AddFrame(dbMessages'[r][Len(dbMessages'[r])]))
                ELSE /\ s \notin DOMAIN connections'[r]
                     /\ outbox'[s] = outbox[s]
           /\ DOMAIN connections'[r] \subseteq DOMAIN connections[r]
           /\ \A x \in Instances \ {r} : connections'[x] = connections[x]]_vars
\* a webhook message was sent to an open connection of the room while the
\* send on a closed socket failed: the socket's session was attached after
\* its close, and its connection is no longer in the set
C18_OneSendFailed ==
  /\ lastHook.status = 200
  /\ \E s1, s2 \in Sockets :
       /\ wsRoom[s1] = lastHook.room /\ wsRoom[s2] = lastHook.room
       /\ wsState[s1] = "open" /\ s1 \in DOMAIN connections[lastHook.room]
       /\ \E k \in DOMAIN outbox[s1] : outbox[s1][k].type = "add"
       /\ wsState[s2] = "closed" /\ s2 \notin DOMAIN connections[lastHook.room]
       /\ MapHas(gigamlSessions[lastHook.room], UuidOfSocket(s2))

\* C19: every initiate call of a room, every session row it writes and
\* every registry entry it registers carries the room's own name as ticket,
\* on every path that sets up a session.
C19_TicketIsRoomName ==
  /\ \A c \in gwCalls : c.op = "initiate" => (c.room \in ClientRooms /\ c.ticketId = c.room)
  /\ \A r \in Instances : \A k \in DOMAIN dbSessions[r] :
       r \in ClientRooms /\ dbSessions[r][k].ticket_id = r
  /\ \A k \in DOMAIN registry :
       registry[k].ticket_id \in ClientRooms /\ registry[k].room_id = registry[k].ticket_id

\* C20: every webhook call that is delivered (answered 200) adds exactly
\* one new message to the store of its room, also when calls follow each
\* other back to back: the count of messages grows by one per call.
C20_OneMessagePerCall ==
  [][(HookStep /\ lastHook'.status = 200) =>
       LET r == lastHook'.room IN
       /\ Len(dbMessages'[r]) = Len(dbMessages[r]) + 1
       /\ Len(messages'[r]) = Len(messages[r]) + 1]_vars

\* C21: no user message from an accepted connection is handled while the
\* room's connection set has no entry for the connection.
C21_ConnectionStateKnown ==
  [][MsgStep =>
       (UserMessage(lastMsg'.frame)
          => lastMsg'.ws \in DOMAIN connections[wsRoom[lastMsg'.ws]])]_vars

\* socket s has been sent the replay and, after it, the acknowledgment
ReplayedAndAcked(box) ==
  \E i, j \in DOMAIN box :
    /\ i < j
    /\ IsJson(box[i]) /\ box[i].type = "all"
    /\ IsJson(box[j]) /\ box[j].type = "connection"

\* C22: when a gateway call (initiate or send) is made for a connection,
\* the replay and the acknowledgment have been sent on its socket; and the
\* step that accepts a connection makes no gateway call and waits for none.
C22_ReplayBeforeGateway ==
  [][/\ \A task \in tasks' \ tasks :
          task.kind \in {"initiate", "send"} => ReplayedAndAcked(outbox'[task.ws])
     /\ \A s \in Sockets :
          (wsState[s] = "new" /\ wsState'[s] = "open")
            => /\ gwCalls' = gwCalls
               /\ \A task \in tasks' \ tasks : task.kind = "timer" /\ task.ws = s]_vars
\* a user message was forwarded for a connection that got its replay
C22_ForwardedAfterReplay ==
  \E task \in tasks :
    /\ task.kind = "send"
    /\ ReplayedAndAcked(outbox[task.ws])
    /\ \E c \in gwCalls : c.op = "initiate" /\ c.room = task.room

\* the messages of clients in a sequence of frames, of writes or of rows
FromClients(log) == SelectSeq(log, LAMBDA f : "id" \in DOMAIN f /\ f.id \in MsgIds)
\* the ids of a sequence in the order of their first occurrence
RECURSIVE FirstIds(_)
FirstIds(log) ==
  IF log = <<>> THEN <<>>
  ELSE LET before == FirstIds(SubSeq(log, 1, Len(log) - 1))
           id == log[Len(log)].id
       IN IF id \in Range(before) THEN before ELSE Append(before, id)

\* C23: the messages one connection sent are first persisted in the order
\* in which they were received and broadcast: the rows of the table, in the
\* order of their insertion, follow the order of the first frame of each id.
C23_PersistedInOrder ==
  \A r \in Instances :
    (\A s \in Sockets : wsRoom[s] = r /\ wsState[s] # "new" => s = 1)
      => LET rows == FirstIds(FromClients(dbMessages[r]))
             sent == FirstIds(FromClients(writes[r]))
         IN rows = SelectSeq(sent, LAMBDA id : id \in Range(rows))

\* the send calls this step started
SendsNow == {task \in tasks' \ tasks : task.kind = "send"}
\* the active session bound to the connection of socket s, <<>> if none
BoundSession(s) ==
  LET conns == connections[wsRoom[s]] IN
  IF s \in DOMAIN conns /\ conns[s].gigamlSession # <<>>
       /\ conns[s].gigamlSession[1].status = "active"
  THEN conns[s].gigamlSession ELSE <<>>

\* C24: a received add/update message is forwarded to the gateway, with one
\* send call that carries the ticketId of the session bound to the receiving
\* connection, if and only if its role is user and the connection has a
\* bound active session; a message of the assistant role is never forwarded.
C24_ForwardedIffUserAndBound ==
  [][(MsgStep /\ IsJson(lastMsg'.frame) /\ lastMsg'.frame.type \in {"add", "update"})
       => LET s == lastMsg'.ws
              f == lastMsg'.frame
          IN IF f.role = "user" /\ BoundSession(s) # <<>>
             THEN \E task \in SendsNow :
                    /\ SendsNow = {task}
                    /\ task.ws = s
                    /\ task.ticketId = BoundSession(s)[1].ticketId
                    /\ task.content = f.content
             ELSE SendsNow = {}]_vars

\* room r has no active session, in memory or in table gigaml_sessions, and
\* no setup of a session under way
SessionAbsent(r) ==
  /\ \A i \in DOMAIN gigamlSessions[r] : gigamlSessions[r][i].v.status # "active"
  /\ ActiveRows(r) = {}
  /\ PendingIn(r) = {}

\* C25: a user message received in a room that has no active session, in
\* memory or in the table, and no setup under way starts the initiation of
\* a session (an initiate call is made for the room); so it does after an
\* initiation that failed.
C25_MessageStartsInitiation ==
  [][(MsgStep /\ UserMessage(lastMsg'.frame) /\ SessionAbsent(wsRoom[lastMsg'.ws]))
       => \E task \in tasks' \ tasks :
            task.kind = "initiate" /\ task.room = wsRoom[lastMsg'.ws]]_vars

\* the registry as a relation, created_at left out
RegistryPairs(rows) == {<<rows[k].ticket_id, rows[k].room_id>> : k \in DOMAIN rows}
\* the registration of a setup that reuses a session another connection
\* created (lines 216-223): the session is not of this connection id
Reused(task) == task.kind = "register" /\ task.session[1].userId # task.connectionId

C27_OneHolderPerTicket ==
  \A r \in Instances : \A i, j \in DOMAIN gigamlSessions[r] :
    gigamlSessions[r][i].v.ticketId = gigamlSessions[r][j].v.ticketId => i = j
\* the session of a room, created by one connection, is held by another
\* connection id alone, and two connections are bound to it
C27_HolderMoved ==
  \E r \in Instances :
    /\ Len(gigamlSessions[r]) = 1
    /\ gigamlSessions[r][1].k # gigamlSessions[r][1].v.userId
    /\ Cardinality({s \in DOMAIN connections[r] :
                      /\ connections[r][s].gigamlSession # <<>>
                      /\ connections[r][s].gigamlSession[1].ticketId
                           = gigamlSessions[r][1].v.ticketId}) = 2

\* the continuation of a gateway call or of a timer, run to its next await
Completed(w, task, ok, t) ==
  CASE task.kind = "timer"    -> PostConnection(w, task)
    [] task.kind = "initiate" -> InitiateReturned(w, task, ok, t)
    [] task.kind = "register" -> RegisterReturned(w, task, t)
    [] task.kind = "send"     -> SendReturned(w, task, ok, t)
\* a session as the gateway knows it: its ticket and its status
Known(session) == [i \in DOMAIN session |->
                     [ticketId |-> session[i].ticketId, status |-> session[i].status]]
\* a state of the program without the frames socket s got, its sessions as
\* the gateway knows them
Effects(s, w) ==
  [w EXCEPT
     !.outbox[s] = <<>>,
     !.connections = [r \in DOMAIN @ |-> [x \in DOMAIN @[r] |->
                        [@[r][x] EXCEPT !.gigamlSession = Known(@)]]],
     !.gigamlSessions = [r \in DOMAIN @ |-> [i \in DOMAIN @[r] |->
                           [k |-> @[r][i].k, v |-> Known(<<@[r][i].v>>)]]],
     !.tasks = {[task EXCEPT !.session = Known(@)] : task \in @}]
\* two states of the program with the same effects but for the frames of s
SameBut(s, w1, w2) == Effects(s, w1) = Effects(s, w2)

C29_NotBlockedByGatewayCall ==
  [][(/\ MsgStep
      /\ IsJson(lastMsg'.frame) /\ lastMsg'.frame.type \in {"add", "update"}
      /\ \E task \in tasks :
           /\ task.kind \in {"initiate", "send"}
           /\ task.ws # lastMsg'.ws /\ task.room = wsRoom[lastMsg'.ws])
       => LET s == lastMsg'.ws
              r == wsRoom[s]
              f == lastMsg'.frame
          IN /\ \A x \in (DOMAIN connections[r]) \ {s} : CanSend(x) => f \in SentNow(x)
             /\ HoldsOnce(dbMessages'[r], f.id, f.content)]_vars

\* C30: an authorized webhook for the registered ticket of a room that
\* knows the session and has no connection is answered 200 and its message
\* is in the table of the room; and the replay a connection is sent holds
\* every message the table holds.
C30_StoredForNextConnection ==
  [][/\ HookStep =>
          LET req == lastHook'.req IN
          \A r \in Instances :
            (/\ BearerOk(req) /\ req.json /\ req.ticket # <<>> /\ req.message # <<>>
             /\ RegistryLookup(registry, req.ticket[1]) = <<r>>
             /\ HasSession(r, req.ticket[1])
             /\ DOMAIN connections[r] = {})
            => /\ lastHook'.status = 200
               /\ HoldsText(dbMessages'[r], ExpectedReply(req.message[1]))
     /\ \A s \in Sockets : \A k \in (DOMAIN outbox'[s]) \ (DOMAIN outbox[s]) :
          outbox'[s][k].type = "all"
            => \A row \in Range(dbMessages[wsRoom[s]]) :
                 \E m \in Range(outbox'[s][k].messages) :
                   m.id = row.id /\ m.content = row.content]_vars

\* C31: the instance that holds the session registry (the one of the name
\* "webhook-router") is no room: no socket is connected to it, its
\* connection set is empty and it stores no chat message.
C31_RegistryIsNoRoom ==
  /\ \A s \in Sockets : wsState[s] # "new" => wsRoom[s] # RouterName
  /\ DOMAIN connections[RouterName] = {}
  /\ messages[RouterName] = <<>>
  /\ dbMessages[RouterName] = <<>>

\* the steps of the session setup of socket s that are still to come
SetupPending(s) ==
  {task \in tasks : task.ws = s /\ task.kind \in {"timer", "initiate", "register"}}
\* socket s has been sent the notice that the assistant is unavailable and
\* the table of its room holds the notice
Unavailable(s, box, rows) ==
  /\ \E k \in DOMAIN box :
       /\ IsJson(box[k]) /\ box[k].type = "add"
       /\ box[k].role = "assistant" /\ box[k].content = UnavailableText
  /\ HoldsText(rows, UnavailableText)

\* C32: the session setup of a connection that stays open ends, and when
\* it ends either the connection is bound to an active session or the
\* notice that the assistant is unavailable, of the assistant role, is in
\* the table and has been sent to the connection in that step.
C32_SetupEnds ==
  /\ [][\A s \in Sockets :
          (/\ wsState[s] = "open" /\ wsState'[s] = "open"
           /\ SetupPending(s) # {}
           /\ {task \in tasks' : task.ws = s
                 /\ task.kind \in {"timer", "initiate", "register"}} = {})
            => LET r == wsRoom[s] IN
               \/ /\ s \in DOMAIN connections'[r]
                  /\ connections'[r][s].gigamlSession # <<>>
                  /\ connections'[r][s].gigamlSession[1].status = "active"
               \/ Unavailable(s, [k \in 1..(Len(outbox'[s]) - Len(outbox[s])) |->
                                    outbox'[s][Len(outbox[s]) + k]],
                              dbMessages'[r])]_vars
  /\ \A s \in Sockets :
       (wsState[s] = "open" /\ SetupPending(s) # {})
         ~> (wsState[s] = "closed" \/ SetupPending(s) = {})
\* two open connections whose setups have ended: one is bound to the
\* session, the other was sent the notice and has no session
C32_BothOutcomes ==
  \E s, x \in Sockets :
    /\ wsState[s] = "open" /\ wsState[x] = "open" /\ wsRoom[s] = wsRoom[x]
    /\ tasks = {}
    /\ s \in DOMAIN connections[wsRoom[s]]
    /\ connections[wsRoom[s]][s].gigamlSession # <<>>
    /\ x \in DOMAIN connections[wsRoom[x]]
    /\ connections[wsRoom[x]][x].gigamlSession = <<>>
    /\ Unavailable(x, outbox[x], dbMessages[wsRoom[x]])

\* C33: a user message received on a socket that has no connection data,
\* in a room with no active session in memory or in the table, is answered
\* with the notice that it will be processed shortly (stored and sent to
\* the sender), and when the emergency setup it started has bound a session
\* the message has been forwarded to the gateway.
C33_ProcessedShortly ==
  [][/\ (/\ MsgStep
         /\ UserMessage(lastMsg'.frame)
         /\ lastMsg'.frame.content \in PlainContents
         /\ lastMsg'.ws \notin DOMAIN connections[wsRoom[lastMsg'.ws]]
         /\ gigamlSessions[wsRoom[lastMsg'.ws]] = <<>>
         /\ ActiveRows(wsRoom[lastMsg'.ws]) = {})
          => /\ HoldsText(dbMessages'[wsRoom[lastMsg'.ws]], ReconnectingText)
             /\ \E f \in SentNow(lastMsg'.ws) :
                  IsJson(f) /\ f.type = "add" /\ f.content = ReconnectingText
     /\ \A task \in tasks \ tasks' :
          (/\ task.kind = "register"
           /\ lastMsg.n > 0 /\ task.connectionId = UuidOfFrame(lastMsg.n - 1))
            => \E c \in gwCalls' :
                 /\ c.op = "send" /\ c.room = task.room
                 /\ c.content = lastMsg.frame.content]_vars

\* C34: on every connection the replay (the "all" frame) is sent at most
\* once and comes before every add or update frame the client gets, be it
\* relayed from another connection, the reply of a webhook or a notice.
C34_ReplayFirst ==
  \A s \in Sockets :
    /\ \A k \in DOMAIN outbox[s] :
         (IsJson(outbox[s][k]) /\ outbox[s][k].type \in {"add", "update"})
           => \E j \in 1..(k - 1) : IsJson(outbox[s][j]) /\ outbox[s][j].type = "all"
    /\ Cardinality({k \in DOMAIN outbox[s] :
                      IsJson(outbox[s][k]) /\ outbox[s][k].type = "all"}) <= 1

\* C35: a socket whose close has been handled is not in the connection set
\* of its room and the session Map has no mapping under its connection id,
\* also when its setup was under way at the close and ends afterwards.
C35_ClosedStaysOut ==
  \A s \in Sockets :
    wsState[s] = "closed"
      => /\ s \notin DOMAIN connections[wsRoom[s]]
         /\ ~MapHas(gigamlSessions[wsRoom[s]], UuidOfSocket(s))

\* C36: every socket that was accepted and is not closed is in the
\* connection set of its room, also after the instance of the room was
\* dropped from memory and built again while the socket stayed open.
C36_OpenSocketsKnown ==
  \A s \in Sockets :
    wsState[s] = "open" => s \in DOMAIN connections[wsRoom[s]]

\* C37: a frame received from a client that is not JSON, or whose type is
\* neither add nor update, changes nothing: no message is stored and no
\* frame is sent to any connection.
C37_OtherFramesIgnored ==
  [][(MsgStep /\ (~IsJson(lastMsg'.frame) \/ lastMsg'.frame.type \notin {"add", "update"}))
       => UNCHANGED <<messages, dbMessages, outbox, connections, gigamlSessions,
                      dbSessions, registry, tasks, gwCalls>>]_vars

\* C38: for every entry of the registry, the instance the router reaches
\* with the room_id of the entry holds an active session row of the ticket
\* of the entry, so the room does not answer a webhook for a registered
\* ticket with "Session not found".
C38_RegisteredRoomHasSession ==
  \A k \in DOMAIN registry :
    \E i \in ActiveRows(registry[k].room_id) :
      dbSessions[registry[k].room_id][i].ticket_id = registry[k].ticket_id

=============================================================================
